---- MODULE Spec2Model ----
(***************************************************************************)
(* Model of seagrass_map.py: the sample-data generator, the grid builder   *)
(* create_grid_df, the method-border layer (style_function) and the static *)
(* legend.                                                                 *)
(*                                                                         *)
(* Representation.                                                         *)
(*  - Text is a sequence of one-character strings, so that formatting      *)
(*    (%d, str) and pandas' parsing are real conversions.                  *)
(*  - Latitude and longitude are integers in microdegrees: the file holds  *)
(*    them with six decimals (%.6f).                                       *)
(*  - Planar (UTM) coordinates are integers in half-metres, so that        *)
(*    grid_size / 2 is exact for every integer grid_size.  Arithmetic is   *)
(*    exact (real) arithmetic; floating-point rounding is not modelled.    *)
(*  - The projection of pyproj is abstracted by an invertible affine map   *)
(*    with the zone's central meridian and false easting; a coordinate     *)
(*    outside the geodetic domain projects to inf, as pyproj returns it.   *)
(*  - Python's random module is abstracted by a small congruential         *)
(*    generator whose state random.seed sets.                              *)
(***************************************************************************)
EXTENDS Integers, Sequences, FiniteSets, TLC

VARIABLES pc, origin, num_rows, file, utm, grid_size,
          gdf, grid_geometries, grid_df, error, styles, legend

vars == <<pc, origin, num_rows, file, utm, grid_size,
          gdf, grid_geometries, grid_df, error, styles, legend>>

\* ------------------------------------------------------------------ bounds
MaxRows == 101
MaxRecords == 2
MaxSeed == 0

\* ------------------------------------------------- constants of __main__
MinLat == 51445900
MaxLat == 51452100
MinLon == 4182800
MaxLon == 4203200

\* ------------------------------------------------------------------- text
Range(s) == {s[k] : k \in 1..Len(s)}

DigitChars == <<"0", "1", "2", "3", "4", "5", "6", "7", "8", "9">>

RECURSIVE FormatD(_)
\* '%d' % n for n >= 0
FormatD(n) ==
    IF n < 10 THEN <<DigitChars[n + 1]>>
    ELSE Append(FormatD(n \div 10), DigitChars[(n % 10) + 1])

IsDigits(s) == Len(s) > 0 /\ \A k \in 1..Len(s) : s[k] \in Range(DigitChars)

DigitValue(c) == CHOOSE d \in 0..9 : DigitChars[d + 1] = c

RECURSIVE ParseInt(_)
ParseInt(s) ==
    IF Len(s) = 0 THEN 0
    ELSE 10 * ParseInt(SubSeq(s, 1, Len(s) - 1)) + DigitValue(s[Len(s)])

\* A Python value of a column: an int, or a str (object column).
IntValue(n) == [t |-> "int", n |-> n, s |-> <<>>]
StrValue(s) == [t |-> "str", n |-> 0, s |-> s]

\* ---------------------------------------------------- generate_random_data
Seeds == 0..MaxSeed

\* random.seed(seed): the generator's state after seeding.
RandSeed(seed) == (7 * seed + 1) % 1024

\* One step of the generator (every call of random.* advances it once).
RandNext(s) == (s + 365) % 1024

\* The generator's state k steps after state s.
RandSkip(s, k) == (s + 365 * k) % 1024

\* random.randint(lo, hi) drawn from generator state s.
RandInt(lo, hi, s) == lo + (s * (hi - lo + 1)) \div 1024

\* lo + random.random() * (hi - lo) drawn from generator state s, to 6 decimals.
RandBetween(lo, hi, s) == lo + (s * (hi - lo)) \div 1024

\* A plausible slip: the method computed as i // 25 + 1, which leaves 1..4
\* from row 100 on.
MethodOfRowQuotient(i) == <<DigitChars[(i \div 25) + 2]>>

\* The method of the row with 0-based index i (the if/elif chain).
MethodOfRow(i) ==
    IF i < 25 THEN <<"1">>
    ELSE IF i < 50 THEN <<"2">>
    ELSE IF i < 75 THEN <<"3">>
    ELSE <<"4">>

\* The line written for the row with 0-based index i; s is the generator
\* state before the row's three draws (randint, random, random).
DataRow(i, min_lat, max_lat, min_lon, max_lon, s) ==
    LET s1 == RandNext(s)
        s2 == RandNext(s1)
        s3 == RandNext(s2)
    IN [cell              |-> FormatD(i + 1),
        latitude          |-> RandBetween(min_lat, max_lat, s2),
        longitude         |-> RandBetween(min_lon, max_lon, s3),
        n_seagrass_plants |-> FormatD(RandInt(0, 100, s1)),
        method            |-> MethodOfRow(i)]

\* The data rows of the file generate_random_data writes (the header line
\* names the five columns and is carried by the record's field names): the
\* for loop writes row i after the 3 * i draws of the rows before it.
generate_random_data(min_lat, max_lat, min_lon, max_lon, n, seed) ==
    [r \in 1..n |->
        DataRow(r - 1, min_lat, max_lat, min_lon, max_lon,
                RandSkip(RandSeed(seed), 3 * (r - 1)))]

\* ---------------------------------------------------------- pd.read_csv
\* pandas infers one dtype per column: int64 when every field of the column
\* parses as an integer, object (str) otherwise.
ColumnValue(field, isInt) ==
    IF isInt THEN IntValue(ParseInt(field)) ELSE StrValue(field)

\* A plausible slip: every column kept as text (dtype=str).
ReadCsvAsText(f) ==
    [i \in 1..Len(f) |->
        [cell              |-> StrValue(f[i].cell),
         latitude          |-> f[i].latitude,
         longitude         |-> f[i].longitude,
         n_seagrass_plants |-> StrValue(f[i].n_seagrass_plants),
         method            |-> StrValue(f[i].method)]]

\* df = pd.read_csv(file_name, sep='\t', header=0)
ReadCsv(f) ==
    LET cellInt   == \A i \in 1..Len(f) : IsDigits(f[i].cell)
        plantsInt == \A i \in 1..Len(f) : IsDigits(f[i].n_seagrass_plants)
        methodInt == \A i \in 1..Len(f) : IsDigits(f[i].method)
    IN [i \in 1..Len(f) |->
        [cell              |-> ColumnValue(f[i].cell, cellInt),
         latitude          |-> f[i].latitude,
         longitude         |-> f[i].longitude,
         n_seagrass_plants |-> ColumnValue(f[i].n_seagrass_plants, plantsInt),
         method            |-> ColumnValue(f[i].method, methodInt)]]

\* ------------------------------------------------------------ projection
\* The EPSG codes the model's projection library knows as UTM zones.
SupportedZones == {32631, 32632}

\* Central meridian of a zone, in microdegrees (zone 31N: 3 E, 32N: 9 E).
CentralMeridian(zone) == IF zone = 32631 THEN 3000000 ELSE 9000000

\* A coordinate pair; ok = FALSE is the pair (inf, inf).
Pt(x, y) == [ok |-> TRUE, x |-> x, y |-> y]
InfPt == [ok |-> FALSE, x |-> 0, y |-> 0]

InGeodeticDomain(lon, lat) ==
    /\ -180000000 <= lon /\ lon <= 180000000
    /\ -90000000 <= lat /\ lat <= 90000000

\* seagrass.to_crs(epsg=utm) on Point(longitude, latitude): microdegrees to
\* half-metres, false easting 500000 m.
ToPlanar(lon, lat, zone) ==
    IF InGeodeticDomain(lon, lat)
    THEN Pt(2 * 500000 + 2 * (lon - CentralMeridian(zone)), 2 * lat)
    ELSE InfPt

\* grid_df.to_crs(epsg=4326) on one planar vertex: half-metres back to
\* geodetic coordinates, in half-microdegrees.
ToGeodetic(p, zone) ==
    IF p.ok THEN Pt(p.x - 2 * 500000 + 2 * CentralMeridian(zone), p.y)
    ELSE InfPt

\* ------------------------------------------------------------ shapely box
\* box(minx, miny, maxx, maxy): the ring shapely builds (counter-clockwise
\* when minx <= maxx and miny <= maxy).
Box(minx, miny, maxx, maxy) ==
    <<[x |-> maxx, y |-> miny], [x |-> maxx, y |-> maxy],
      [x |-> minx, y |-> maxy], [x |-> minx, y |-> miny]>>

Polygon(ring) == [ok |-> TRUE, ring |-> ring]
InfPolygon == [ok |-> FALSE, ring |-> Box(0, 0, 0, 0)]

\* ---------------------------------------------------------- create_grid_df
\* A plausible slip: the box extends grid_size (not grid_size / 2) to each
\* side of the point.
GridBoxFullSize(point, size) ==
    IF point.ok
    THEN Polygon(Box(point.x - 2 * size, point.y - 2 * size,
                     point.x + 2 * size, point.y + 2 * size))
    ELSE InfPolygon

\* A plausible slip: x and y of the point exchanged.
GridBoxSwapped(point, size) ==
    IF point.ok
    THEN Polygon(Box(point.y - size, point.x - size,
                     point.y + size, point.x + size))
    ELSE InfPolygon

\* box(point.x - grid_size / 2, point.y - grid_size / 2,
\*     point.x + grid_size / 2, point.y + grid_size / 2)
\* in half-metres: grid_size / 2 metres is grid_size half-metres.
GridBox(point, size) ==
    IF point.ok
    THEN Polygon(Box(point.x - size, point.y - size,
                     point.x + size, point.y + size))
    ELSE InfPolygon

\* gdf = seagrass.to_crs(epsg=utm): the rows of df with their planar point.
ToCrsPlanar(df, zone) ==
    [i \in 1..Len(df) |->
        [cell              |-> df[i].cell,
         latitude          |-> df[i].latitude,
         longitude         |-> df[i].longitude,
         n_seagrass_plants |-> df[i].n_seagrass_plants,
         method            |-> df[i].method,
         geometry          |-> ToPlanar(df[i].longitude, df[i].latitude, zone)]]

\* A plausible slip: points that could not be projected are left out.
GridGeometriesSkipInvalid(rows, size) ==
    LET kept == SelectSeq(rows, LAMBDA r : r.geometry.ok)
    IN [i \in 1..Len(kept) |-> GridBox(kept[i].geometry, size)]

\* A plausible slip: the cells laid out side by side, each shifted by its
\* position in the batch.
GridGeometriesTiled(rows, size) ==
    [i \in 1..Len(rows) |->
        GridBox([ok |-> rows[i].geometry.ok,
                 x  |-> rows[i].geometry.x + 2 * size * (i - 1),
                 y  |-> rows[i].geometry.y], size)]

\* grid_geometries = [box(...) for point in gdf['geometry']]
GridGeometries(rows, size) ==
    [i \in 1..Len(rows) |-> GridBox(rows[i].geometry, size)]

\* grid_df.to_crs(epsg=4326): every vertex of every polygon projected back.
ToCrsGeodetic(geoms, zone) ==
    [i \in 1..Len(geoms) |->
        IF geoms[i].ok
        THEN Polygon([k \in 1..Len(geoms[i].ring) |->
                 LET q == ToGeodetic(Pt(geoms[i].ring[k].x, geoms[i].ring[k].y), zone)
                 IN [x |-> q.x, y |-> q.y]])
        ELSE InfPolygon]

\* A plausible slip: the columns attached in reverse row order.
AttachColumnsReversed(geoms, seagrass) ==
    [i \in 1..Len(geoms) |->
        [geometry |-> geoms[i],
         n_plants |-> seagrass[Len(seagrass) + 1 - i].n_seagrass_plants,
         cell     |-> seagrass[Len(seagrass) + 1 - i].cell,
         method   |-> seagrass[Len(seagrass) + 1 - i].method]]

\* grid_df['n_plants'] = seagrass['n_seagrass_plants'], and so on for cell and
\* method: pandas aligns the assigned column on the row index 0..N-1.
AttachColumns(geoms, seagrass) ==
    [i \in 1..Len(geoms) |->
        [geometry |-> geoms[i],
         n_plants |-> seagrass[i].n_seagrass_plants,
         cell     |-> seagrass[i].cell,
         method   |-> seagrass[i].method]]

\* ---------------------------------------------------------- style_function
\* Python's ==  between a column value and an int literal: a str never
\* equals an int.
PyEqInt(v, k) == v.t = "int" /\ v.n = k

Style(color, weight) == [defined |-> TRUE, color |-> color, weight |-> weight]
None == [defined |-> FALSE, color |-> <<>>, weight |-> 0]

\* A plausible slip: method 3 given another colour than the legend shows.
style_function_green(feature) ==
    IF PyEqInt(feature.properties.method, 1)
    THEN Style(<<"o", "r", "a", "n", "g", "e">>, 4)
    ELSE IF PyEqInt(feature.properties.method, 2)
    THEN Style(<<"r", "e", "d">>, 4)
    ELSE IF PyEqInt(feature.properties.method, 3)
    THEN Style(<<"g", "r", "e", "e", "n">>, 4)
    ELSE IF PyEqInt(feature.properties.method, 4)
    THEN Style(<<"Y", "e", "l", "l", "o", "w">>, 4)
    ELSE None

style_function(feature) ==
    IF PyEqInt(feature.properties.method, 1)
    THEN Style(<<"o", "r", "a", "n", "g", "e">>, 4)
    ELSE IF PyEqInt(feature.properties.method, 2)
    THEN Style(<<"r", "e", "d">>, 4)
    ELSE IF PyEqInt(feature.properties.method, 3)
    THEN Style(<<"b", "l", "u", "e">>, 4)
    ELSE IF PyEqInt(feature.properties.method, 4)
    THEN Style(<<"Y", "e", "l", "l", "o", "w">>, 4)
    ELSE None

\* The GeoJSON feature folium hands to the style function for one cell.
Feature(row) ==
    [properties |-> [n_plants |-> row.n_plants, cell |-> row.cell,
                     method |-> row.method]]

\* ------------------------------------------------------------ create_legend
\* The four swatch lines of legend_html: 'Method k' and its background.
legend_html ==
    <<[method |-> 1, background |-> <<"o", "r", "a", "n", "g", "e">>],
      [method |-> 2, background |-> <<"r", "e", "d">>],
      [method |-> 3, background |-> <<"b", "l", "u", "e">>],
      [method |-> 4, background |-> <<"y", "e", "l", "l", "o", "w">>]>>

\* ------------------------------------------------------------------ inputs
\* Files supplied by the user instead of generated ones: rows over a small
\* alphabet, among them a latitude of 200 degrees and a non-numeric method.
SuppliedRows ==
    [cell              : {<<"1">>, <<"2">>},
     latitude          : {51450100, 200000000},
     longitude         : {4190100},
     n_seagrass_plants : {<<"4", "2">>},
     method            : {<<"2">>, <<"5">>, <<"A">>}]

RECURSIVE SeqsUpTo(_, _)
SeqsUpTo(S, n) ==
    IF n = 0 THEN {<<>>}
    ELSE LET shorter == SeqsUpTo(S, n - 1)
         IN shorter \cup {Append(q, e) : q \in shorter, e \in S}

SuppliedFiles == SeqsUpTo(SuppliedRows, MaxRecords)

ZoneInputs == {32631, 32632, 4}
GridSizeInputs == {-5, 0, 20}

\* ------------------------------------------------------------------- state
Init ==
    /\ pc = "start"
    /\ origin = "none"
    /\ num_rows = 0
    /\ file = <<>>
    /\ utm = 0
    /\ grid_size = 0
    /\ gdf = <<>>
    /\ grid_geometries = <<>>
    /\ grid_df = <<>>
    /\ error = "none"
    /\ styles = <<>>
    /\ legend = <<>>

\* generate_random_data(min_lat, max_lat, min_lon, max_lon, num_rows,
\*                      file_name, seed) with the area of __main__.
GenerateRandomData ==
    /\ pc = "start"
    /\ \E n \in 0..MaxRows, seed \in Seeds :
        /\ num_rows' = n
        /\ file' = generate_random_data(MinLat, MaxLat, MinLon, MaxLon, n, seed)
    /\ origin' = "generated"
    /\ pc' = "file"
    /\ UNCHANGED <<utm, grid_size, gdf, grid_geometries, grid_df, error,
                   styles, legend>>

\* The generator is commented out in __main__: the file is then one the
\* user supplies.
SupplyFile ==
    /\ pc = "start"
    /\ \E f \in SuppliedFiles :
        /\ file' = f
        /\ num_rows' = Len(f)
    /\ origin' = "supplied"
    /\ pc' = "file"
    /\ UNCHANGED <<utm, grid_size, gdf, grid_geometries, grid_df, error,
                   styles, legend>>

\* create_grid_df raises: to_crs(epsg=utm) rejects an EPSG code it does not
\* know (pyproj's CRSError); nothing is returned.
CreateGridDfRaises ==
    /\ pc = "file"
    /\ \E zone \in ZoneInputs \ SupportedZones, size \in GridSizeInputs :
        /\ utm' = zone
        /\ grid_size' = size
    /\ error' = "CRSError"
    /\ pc' = "failed"
    /\ UNCHANGED <<origin, num_rows, file, gdf, grid_geometries, grid_df,
                   styles, legend>>

\* create_grid_df raises on a file with a header and no data row:
\* df.apply(..., axis=1) of an empty frame yields no geometry column, and
\* whether geopandas accepts it depends on the installed version.
CreateGridDfEmptyRaises ==
    /\ pc = "file"
    /\ Len(file) = 0
    /\ \E zone \in SupportedZones, size \in GridSizeInputs :
        /\ utm' = zone
        /\ grid_size' = size
    /\ error' = "ValueError"
    /\ pc' = "failed"
    /\ UNCHANGED <<origin, num_rows, file, gdf, grid_geometries, grid_df,
                   styles, legend>>

\* gdf, grid_df = create_grid_df(file_name, utm, grid_size)
CreateGridDf ==
    /\ pc = "file"
    /\ \E zone \in SupportedZones, size \in GridSizeInputs :
        LET df        == ReadCsv(file)
            seagrass  == df
            projected == ToCrsPlanar(seagrass, zone)
            geoms     == GridGeometries(projected, size)
        IN /\ utm' = zone
           /\ grid_size' = size
           /\ gdf' = projected
           /\ grid_geometries' = geoms
           /\ grid_df' = AttachColumns(ToCrsGeodetic(geoms, zone), seagrass)
    /\ pc' = "built"
    /\ UNCHANGED <<origin, num_rows, file, error, styles, legend>>

\* create_methods_map(grid_df, m): folium evaluates style_function on every
\* feature of grid_df.
CreateMethodsMap ==
    /\ pc = "built"
    /\ styles' = [i \in 1..Len(grid_df) |-> style_function(Feature(grid_df[i]))]
    /\ pc' = "methods"
    /\ UNCHANGED <<origin, num_rows, file, utm, grid_size, gdf,
                   grid_geometries, grid_df, error, legend>>

\* create_legend(m)
CreateLegend ==
    /\ pc = "methods"
    /\ legend' = legend_html
    /\ pc' = "done"
    /\ UNCHANGED <<origin, num_rows, file, utm, grid_size, gdf,
                   grid_geometries, grid_df, error, styles>>

Next ==
    \/ GenerateRandomData
    \/ SupplyFile
    \/ CreateGridDfRaises
    \/ CreateGridDfEmptyRaises
    \/ CreateGridDf
    \/ CreateMethodsMap
    \/ CreateLegend

Spec == Init /\ [][Next]_vars

\* ------------------------------------------------------------- properties
Returned == pc \in {"built", "methods", "done"}
Ended == pc \in {"built", "methods", "done", "failed"}
Styled == pc \in {"methods", "done"}

Abs(n) == IF n < 0 THEN -n ELSE n

Min(S) == CHOOSE m \in S : \A n \in S : m <= n
Max(S) == CHOOSE m \in S : \A n \in S : m >= n

\* polygon.bounds: (minx, miny, maxx, maxy) over the ring's vertices.
Bounds(poly) ==
    LET xs == {poly.ring[k].x : k \in 1..Len(poly.ring)}
        ys == {poly.ring[k].y : k \in 1..Len(poly.ring)}
    IN [minx |-> Min(xs), miny |-> Min(ys), maxx |-> Max(xs), maxy |-> Max(ys)]

UpperChars == <<"A", "B", "C", "D", "E", "F", "G", "H", "I", "J", "K", "L", "M",
                "N", "O", "P", "Q", "R", "S", "T", "U", "V", "W", "X", "Y", "Z">>
LowerChars == <<"a", "b", "c", "d", "e", "f", "g", "h", "i", "j", "k", "l", "m",
                "n", "o", "p", "q", "r", "s", "t", "u", "v", "w", "x", "y", "z">>

LowerChar(c) ==
    IF \E k \in 1..Len(UpperChars) : UpperChars[k] = c
    THEN LowerChars[CHOOSE k \in 1..Len(UpperChars) : UpperChars[k] = c]
    ELSE c

\* The colour a CSS colour keyword names: keywords are case-insensitive.
CssColor(name) == [k \in 1..Len(name) |-> LowerChar(name[k])]

LegendBackground(lg, m) ==
    lg[CHOOSE k \in 1..Len(lg) : lg[k].method = m].background

OutOfRange(row) == ~InGeodeticDomain(row.longitude, row.latitude)

\* C1: whenever create_grid_df returns, grid_df has exactly one cell per data
\* row of the file, in file order, and the i-th cell carries the cell,
\* n_seagrass_plants and method values of the i-th record read from the
\* file; with at least one record and a zone the projection knows, the call
\* does return.
C1_OneCellPerRecordInOrder ==
    LET df == ReadCsv(file)
    IN /\ Returned =>
            /\ Len(grid_df) = Len(file)
            /\ \A i \in 1..Len(file) :
                /\ grid_df[i].cell = df[i].cell
                /\ grid_df[i].n_plants = df[i].n_seagrass_plants
                /\ grid_df[i].method = df[i].method
       /\ (Ended /\ Len(file) >= 1 /\ utm \in SupportedZones) => Returned

C1_Witness ==
    /\ pc = "built"
    /\ Len(grid_df) = 2
    /\ grid_df[1].cell # grid_df[2].cell
    /\ grid_df[1].method # grid_df[2].method
    /\ grid_df[1].geometry.ok /\ grid_df[2].geometry.ok

\* C2: for every record with a planar coordinate (x, y) and every positive
\* grid_size, the planar box of the record has exactly the corners
\* (x -+ grid_size/2, y -+ grid_size/2), consecutive corners differ in one
\* coordinate only, and every side is grid_size metres long (planar
\* coordinates are in half-metres, so grid_size/2 metres is grid_size units).
C2_SquareOfEdgeLength ==
    (Returned /\ grid_size > 0) =>
        /\ Len(grid_geometries) = Len(gdf)
        /\ \A i \in 1..Len(gdf) :
            gdf[i].geometry.ok =>
                LET p == gdf[i].geometry
                    g == grid_geometries[i]
                IN /\ g.ok
                   /\ Len(g.ring) = 4
                   /\ Range(g.ring) =
                        {[x |-> p.x - grid_size, y |-> p.y - grid_size],
                         [x |-> p.x + grid_size, y |-> p.y - grid_size],
                         [x |-> p.x + grid_size, y |-> p.y + grid_size],
                         [x |-> p.x - grid_size, y |-> p.y + grid_size]}
                   /\ \A k \in 1..4 :
                        LET a == g.ring[k]
                            b == g.ring[(k % 4) + 1]
                        IN \/ a.x = b.x /\ Abs(a.y - b.y) = 2 * grid_size
                           \/ a.y = b.y /\ Abs(a.x - b.x) = 2 * grid_size

C2_Witness ==
    /\ pc = "built"
    /\ grid_size = 20
    /\ Len(gdf) >= 1
    /\ gdf[1].geometry.ok

\* C3: for every cell whose record has a planar coordinate, the record's
\* planar point lies within the bounds of its planar box, and the record's
\* geodetic point lies within the bounds of the cell's geodetic polygon
\* (the polygon is in half-microdegrees), whatever the sign of grid_size.
C3_PointInsideCell ==
    Returned =>
        \A i \in 1..Len(gdf) :
            gdf[i].geometry.ok =>
                /\ i <= Len(grid_geometries) /\ i <= Len(grid_df)
                /\ grid_geometries[i].ok /\ grid_df[i].geometry.ok
                /\ LET p == gdf[i].geometry
                       b == Bounds(grid_geometries[i])
                       c == Bounds(grid_df[i].geometry)
                   IN /\ b.minx <= p.x /\ p.x <= b.maxx
                      /\ b.miny <= p.y /\ p.y <= b.maxy
                      /\ c.minx <= 2 * gdf[i].longitude
                      /\ 2 * gdf[i].longitude <= c.maxx
                      /\ c.miny <= 2 * gdf[i].latitude
                      /\ 2 * gdf[i].latitude <= c.maxy

C3_Witness ==
    /\ pc = "built"
    /\ grid_size = -5
    /\ Len(gdf) >= 1
    /\ gdf[1].geometry.ok
    /\ Bounds(grid_geometries[1]).minx < gdf[1].geometry.x

\* C4 (as claimed): a call of create_grid_df with grid_size <= 0 ends with
\* InvalidGridSizeError and returns no cell.
C4_NonPositiveSizeRejected ==
    (Ended /\ grid_size <= 0) =>
        /\ pc = "failed"
        /\ error = "InvalidGridSizeError"
        /\ grid_df = <<>>

\* C5: create_grid_df either returns without error a grid_df of exactly one
\* cell per record, the cells of records that could not be projected
\* included under their own identifier, or it raises and returns nothing.
C5_AllOrNothing ==
    LET df == ReadCsv(file)
    IN /\ Returned =>
            /\ error = "none"
            /\ Len(gdf) = Len(file)
            /\ Len(grid_df) = Len(file)
            /\ \A i \in 1..Len(file) :
                OutOfRange(file[i]) =>
                    /\ ~grid_df[i].geometry.ok
                    /\ grid_df[i].cell = df[i].cell
       /\ pc = "failed" =>
            /\ error # "none"
            /\ gdf = <<>>
            /\ grid_geometries = <<>>
            /\ grid_df = <<>>

C5_Witness ==
    /\ pc = "built"
    /\ Len(file) = 2
    /\ OutOfRange(file[1])
    /\ ~OutOfRange(file[2])

\* C6 (as claimed): a build over a file with a record whose latitude or
\* longitude is outside the valid degree range ends with
\* InvalidCoordinateError and produces no cell.
C6_OutOfRangeRejected ==
    (Ended /\ \E i \in 1..Len(file) : OutOfRange(file[i])) =>
        /\ pc = "failed"
        /\ error = "InvalidCoordinateError"
        /\ grid_df = <<>>

C8_LegendMatchesBorder ==
    pc = "done" =>
        \A i \in 1..Len(grid_df) : \A m \in 1..4 :
            PyEqInt(grid_df[i].method, m) =>
                /\ styles[i].defined
                /\ styles[i].weight = 4
                /\ CssColor(styles[i].color) = CssColor(LegendBackground(legend, m))
                /\ CssColor(styles[i].color) =
                      CASE m = 1 -> <<"o", "r", "a", "n", "g", "e">>
                        [] m = 2 -> <<"r", "e", "d">>
                        [] m = 3 -> <<"b", "l", "u", "e">>
                        [] m = 4 -> <<"y", "e", "l", "l", "o", "w">>

C8_Witness ==
    /\ pc = "done"
    /\ \A m \in 1..4 : \E i \in 1..Len(grid_df) : PyEqInt(grid_df[i].method, m)

\* C9: the file generate_random_data writes has exactly num_rows data rows;
\* row i (1-based) has cell i, a plant count in 0..100, and method '1' for
\* i <= 25, '2' for i <= 50, '3' for i <= 75 and '4' for every later row.
C9_GeneratedRows ==
    origin = "generated" =>
        /\ Len(file) = num_rows
        /\ \A i \in 1..Len(file) :
            /\ IsDigits(file[i].cell)
            /\ ParseInt(file[i].cell) = i
            /\ IsDigits(file[i].n_seagrass_plants)
            /\ ParseInt(file[i].n_seagrass_plants) \in 0..100
            /\ file[i].method =
                  (IF i - 1 < 25 THEN <<"1">>
                   ELSE IF i - 1 < 50 THEN <<"2">>
                   ELSE IF i - 1 < 75 THEN <<"3">>
                   ELSE <<"4">>)

C9_Witness ==
    /\ origin = "generated"
    /\ pc = "file"
    /\ num_rows > 100
    /\ file[101].method = <<"4">>
    /\ \E i \in 1..Len(file) : ParseInt(file[i].n_seagrass_plants) = 100
    /\ \E i \in 1..Len(file) : ParseInt(file[i].n_seagrass_plants) = 0

\* C10: a cell has a border style exactly when its method is one of the
\* ints 1..4, so a method that arrives as a str has none; and every cell of
\* a generated file has its method as an int and has a border style.
C10_StyleOnlyForIntMethod ==
    Styled =>
        /\ Len(styles) = Len(grid_df)
        /\ \A i \in 1..Len(grid_df) :
            /\ styles[i].defined <=>
                  (grid_df[i].method.t = "int" /\ grid_df[i].method.n \in 1..4)
            /\ origin = "generated" =>
                  (grid_df[i].method.t = "int" /\ styles[i].defined)

C10_Witness ==
    /\ pc = "methods"
    /\ origin = "generated"
    /\ Len(grid_df) > 75
    /\ \A i \in 1..Len(grid_df) : styles[i].defined

\* Reachable beside C10's witness: a method '2' read as a str in a column
\* that also holds 'A', left without a border style.
C10_StrMethodUnstyled ==
    /\ pc = "methods"
    /\ \E i \in 1..Len(grid_df) :
        /\ grid_df[i].method = StrValue(<<"2">>)
        /\ ~styles[i].defined

====
